---------------------------- MODULE Spec2Model ----------------------------
(***************************************************************************)
(* Product catalogue of ManagerMarcela: the Express router of /products,   *)
(* the Cloudinary media store it uploads to and deletes from, and the      *)
(* MongoDB collection behind ../config/database.                           *)
(*                                                                         *)
(* The repository holds two versions of the router:                        *)
(*   "backend"  src/backend/src/routes/product.routes.ts, the file that    *)
(*              src/backend/src/index.ts mounts; it never calls            *)
(*              cloudinary.uploader.destroy;                               *)
(*   "unnamed"  src/unnamed/part_000 lines 1-137, which looks the product  *)
(*              up and destroys its previous image on PUT and DELETE.      *)
(* The variable router says which of the two serves the requests.          *)
(*                                                                         *)
(* Strings that the code takes apart (URLs, public ids) are sequences of   *)
(* one-character strings, so that split('/') and split('.') are computed.  *)
(***************************************************************************)
EXTENDS Integers, Sequences, FiniteSets, TLC

VARIABLES
    router,     \* which router file is mounted on /products
    db,         \* the products collection: _id -> document
    nextId,     \* the next _id the collection generates
    assets,     \* public ids of the assets the media store holds
    issued,     \* every asset the media store has issued: [public_id, secure_url]
    reqs,       \* the requests received, in order of arrival, with their position
    app,        \* the useState values of the client component App
    inflight,   \* the async handler of App that waits at an await, if any
    fetched,    \* the mutating requests App has issued with fetch, in order
    openedWith  \* history: the button that opened the dialog now shown

serverVars == <<router, db, nextId, assets, issued, reqs>>

clientVars == <<app, inflight, fetched, openedWith>>

vars == <<router, db, nextId, assets, issued, reqs, app, inflight, fetched, openedWith>>

(***************************************************************************)
(* Bounds of the model.                                                    *)
(***************************************************************************)
MaxRequests == 2    \* requests received in one behaviour
MaxProducts == 2    \* _ids the collection generates; requests name ids 1..MaxProducts
MaxAssets == 5      \* asset names the media store can generate
MaxFetches == 2     \* mutating requests the client issues in one behaviour

(***************************************************************************)
(* Strings as character sequences.                                         *)
(***************************************************************************)
Folder == <<"s","t","o","r","e","-","p","r","o","d","u","c","t","s">>

\* secure: true gives https URLs; <cloud_name>/image/upload/v<version> precede
\* the public id in the URL the store returns
DeliveryBase ==
    <<"h","t","t","p","s",":","/","/","r","e","s",".","c","l","o","u","d",
      "i","n","a","r","y",".","c","o","m","/","c","n","/","i","m","a","g","e",
      "/","u","p","l","o","a","d","/","v","1">>

Formats == << <<"j","p","g">>, <<"p","n","g">> >>

AllowedFormats == { Formats[k] : k \in DOMAIN Formats }

\* the media store names an asset that is uploaded without a public_id with
\* random letters and digits: no '/' and no '.'
NameChars == <<"a", "7">>

\* the k-th name over NameChars: a, 7, aa, a7, 7a, 77, aaa, ...
RECURSIVE NameOf(_)
NameOf(k) ==
    IF k = 0 THEN <<>>
    ELSE Append(NameOf((k - 1) \div Len(NameChars)),
                NameChars[((k - 1) % Len(NameChars)) + 1])

AssetNames == { NameOf(k) : k \in 1..MaxAssets }

\* String.prototype.split with a one-character separator
split(s, sep) ==
    LET RECURSIVE go(_, _, _)
        go(i, cur, acc) ==
            IF i > Len(s) THEN Append(acc, cur)
            ELSE IF s[i] = sep THEN go(i + 1, <<>>, Append(acc, cur))
            ELSE go(i + 1, Append(cur, s[i]), acc)
    IN  go(1, <<>>, <<>>)


(***************************************************************************)
(* The media store (Cloudinary behind multer-storage-cloudinary).          *)
(***************************************************************************)
Slash == <<"/">>
Dot == <<".">>

\* public_id of an asset stored under params.folder
PublicIdOf(name) == Folder \o Slash \o name

\* the secure_url of the asset: delivery base, public id, '.', format
SecureUrlOf(name, format) == DeliveryBase \o Slash \o PublicIdOf(name) \o Dot \o format

\* req.file: undefined when the multipart body carries no 'image' part
NoFile == [present |-> FALSE, path |-> <<>>]

\* what upload.single('image') leaves in req.file after storing the asset
UploadedFile(name, format) == [present |-> TRUE, path |-> SecureUrlOf(name, format)]

IssuedAsset(name, format) ==
    [public_id |-> PublicIdOf(name), secure_url |-> SecureUrlOf(name, format)]

IssuedIds == { a.public_id : a \in issued }

(***************************************************************************)
(* Helper of the router: public_id from a Cloudinary URL.                  *)
(***************************************************************************)
getPublicIdFromUrl_noFolder(url) ==
    LET splitUrl == split(url, "/")
        filename == splitUrl[Len(splitUrl)]
    IN  split(filename, ".")[1]

getPublicIdFromUrl(url) ==
    LET splitUrl == split(url, "/")
        filename == splitUrl[Len(splitUrl)]
    IN  Folder \o Slash \o split(filename, ".")[1]

(***************************************************************************)
(* The persistence collaborator ../config/database (not among the source   *)
(* files): list-all, insert, update-by-id, delete-by-id of the spec.       *)
(***************************************************************************)
ProductFields == {"name", "description", "price", "imageUrl"}

getProducts(d) == d

insertProduct(d, id, product) ==
    [i \in DOMAIN d \cup {id} |-> IF i = id THEN product ELSE d[i]]

\* update-by-id: the fields given replace the stored ones, the others stay
updateProduct(d, id, data) ==
    IF id \in DOMAIN d
    THEN [d EXCEPT ![id] =
            [f \in ProductFields |-> IF f \in DOMAIN data THEN data[f] ELSE d[id][f]]]
    ELSE d

deleteProduct(d, id) == [i \in DOMAIN d \ {id} |-> d[i]]

\* products.find(p => p._id.toString() === id): <<>> is undefined
find(products, id) == IF id \in DOMAIN products THEN << products[id] >> ELSE <<>>

(***************************************************************************)
(* Request bodies.                                                         *)
(***************************************************************************)
Digits == <<"0","1","2","3","4","5","6","7","8","9">>

DigitValue(c) == (CHOOSE k \in 1..10 : Digits[k] = c) - 1

\* Number(price) of a string of decimal digits; Number("") is 0
RECURSIVE Number(_)
Number(s) ==
    IF s = <<>> THEN 0
    ELSE 10 * Number(SubSeq(s, 1, Len(s) - 1)) + DigitValue(s[Len(s)])

Bodies ==
    { [name |-> "Cup", description |-> "Glass cup",   price |-> <<"1","2">>],
      [name |-> "",    description |-> "Ceramic mug", price |-> <<"9">>],
      [name |-> "Mug", description |-> "",            price |-> <<"9">>],
      [name |-> "Mug", description |-> "Ceramic mug", price |-> <<"0">>] }

\* the bodies of the PUT requests
PutBodies == { b \in Bodies : b.name = "Cup" \/ b.description = "" }

NoBody == [name |-> "", description |-> "", price |-> <<>>]

Ids == 1..MaxProducts


(***************************************************************************)
(* Requests.  A request is a record: its inputs (method, id, body, file),  *)
(* its position pc at an await of the handler, what it has read            *)
(* (existing), the calls it has issued (destroyed, persisted), and its     *)
(* response (status, products).                                            *)
(***************************************************************************)
Request(method, id, body, file, pc, status) ==
    [method |-> method, id |-> id, body |-> body, file |-> file,
     pc |-> pc, status |-> status,
     existing |-> <<>>,         \* the product the handler found, <<>> if none
     destroyed |-> <<>>,        \* arguments of its cloudinary.uploader.destroy calls
     destroyError |-> FALSE,    \* a destroy call of it was rejected
     persisted |-> <<>>,        \* its insertProduct/updateProduct/deleteProduct calls
     products |-> <<>>]         \* the products of a GET response

\* the media store keeps a new asset under a name it has not issued before
store(name, format) ==
    /\ PublicIdOf(name) \notin IssuedIds
    /\ assets' = assets \cup { PublicIdOf(name) }
    /\ issued' = issued \cup { IssuedAsset(name, format) }

\* The handlers only compare the URLs the store returns (how a URL is taken
\* apart is checked over all names and formats under SpecStorage), so in the
\* behaviours of the router the k-th upload gets the k-th name, and the
\* formats alternate.
FreshName == NameOf(Cardinality(issued) + 1)

FreshFormat == Formats[(Cardinality(issued) % Len(Formats)) + 1]

\* upload.single('image'): either no image part, or a new asset
upload_single(file) ==
    \/ /\ file = NoFile
       /\ UNCHANGED <<assets, issued>>
    \/ /\ FreshName \in AssetNames
       /\ file = UploadedFile(FreshName, FreshFormat)
       /\ store(FreshName, FreshFormat)

Files == { NoFile } \cup { UploadedFile(n, f) : n \in AssetNames, f \in AllowedFormats }

Arrive(r) == reqs' = Append(reqs, r)

CanArrive == Len(reqs) < MaxRequests

Pending(pc) == { i \in DOMAIN reqs : reqs[i].pc = pc }

(***************************************************************************)
(* GET /products (the same handler in both routers)                       *)
(***************************************************************************)
get ==
    /\ CanArrive
    /\ Arrive([Request("GET", 0, NoBody, NoFile, "done", 200)
                  EXCEPT !.products = getProducts(db)])
    /\ UNCHANGED <<router, db, nextId, assets, issued>>

(***************************************************************************)
(* POST /products (the same handler in both routers)                      *)
(***************************************************************************)
\* if (!req.file)
fileMissing_never(file) == FALSE

fileMissing(file) == ~file.present

newProduct(body, file) ==
    [name |-> body.name, description |-> body.description,
     price |-> Number(body.price), imageUrl |-> file.path]

\* the handler up to its await of insertProduct; reading req.file.path of an
\* undefined req.file would throw into the catch block
post ==
    \E body \in Bodies, file \in Files :
       /\ CanArrive
       /\ file.present => nextId + Cardinality(Pending("insert")) <= MaxProducts
       /\ upload_single(file)
       /\ IF fileMissing(file)
          THEN Arrive(Request("POST", 0, body, file, "done", 400))
          ELSE IF ~file.present
          THEN Arrive(Request("POST", 0, body, file, "done", 500))
          ELSE Arrive(Request("POST", 0, body, file, "insert", 0))
       /\ UNCHANGED <<router, db, nextId>>

post_insert(i) ==
    /\ reqs[i].method = "POST" /\ reqs[i].pc = "insert"
    /\ db' = insertProduct(db, nextId, newProduct(reqs[i].body, reqs[i].file))
    /\ nextId' = nextId + 1
    /\ reqs' = [reqs EXCEPT ![i].pc = "done", ![i].status = 201, ![i].id = nextId,
                            ![i].persisted = Append(@, "insertProduct")]
    /\ UNCHANGED <<router, assets, issued>>

(***************************************************************************)
(* PUT /products/:id                                                       *)
(***************************************************************************)
updateData_withImageUrl(body, file) ==
    [name |-> body.name, description |-> body.description,
     price |-> Number(body.price), imageUrl |-> file.path]

updateData(body, file) ==
    IF file.present
    THEN [name |-> body.name, description |-> body.description,
          price |-> Number(body.price), imageUrl |-> file.path]
    ELSE [name |-> body.name, description |-> body.description,
          price |-> Number(body.price)]

\* the router of part_000: the upload, then the await of getProducts
put ==
    \E id \in Ids, body \in PutBodies, file \in Files :
       /\ router = "unnamed"
       /\ CanArrive
       /\ upload_single(file)
       /\ Arrive(Request("PUT", id, body, file, "find", 0))
       /\ UNCHANGED <<router, db, nextId>>

\* getProducts resolves; the handler runs on to its next await
put_find(i) ==
    LET r == reqs[i]
        existingProduct == find(getProducts(db), r.id)
        destroys == /\ r.file.present
                    /\ existingProduct # <<>>
                    /\ existingProduct[1].imageUrl # <<>>
    IN  /\ r.method = "PUT" /\ r.pc = "find"
        /\ reqs' = [reqs EXCEPT
              ![i].existing = existingProduct,
              ![i].destroyed =
                  IF destroys
                  THEN Append(@, getPublicIdFromUrl(existingProduct[1].imageUrl))
                  ELSE @,
              ![i].pc = IF destroys THEN "destroy" ELSE "update"]
        /\ UNCHANGED <<router, db, nextId, assets, issued>>

\* cloudinary.uploader.destroy resolves (also when the asset is not found), or
\* is rejected and the catch block answers 500
destroy(i, next) ==
    LET r == reqs[i]
        publicId == r.destroyed[Len(r.destroyed)]
    IN  \/ /\ assets' = assets \ { publicId }
           /\ reqs' = [reqs EXCEPT ![i].pc = next]
        \/ /\ assets' = assets
           /\ reqs' = [reqs EXCEPT ![i].pc = "done", ![i].status = 500,
                                   ![i].destroyError = TRUE]

put_destroy(i) ==
    /\ reqs[i].method = "PUT" /\ reqs[i].pc = "destroy"
    /\ destroy(i, "update")
    /\ UNCHANGED <<router, db, nextId, issued>>

\* await updateProduct(id, updateData); res.status(200): the same two
\* statements end the PUT handler of both routers
put_update(i) ==
    LET r == reqs[i]
    IN  /\ r.method = "PUT" /\ r.pc = "update"
        /\ db' = updateProduct(db, r.id, updateData(r.body, r.file))
        /\ reqs' = [reqs EXCEPT ![i].pc = "done", ![i].status = 200,
                                ![i].persisted = Append(@, "updateProduct")]
        /\ UNCHANGED <<router, nextId, assets, issued>>

\* the router of backend/src/routes: the upload, then the await of updateProduct
backend_put ==
    \E id \in Ids, body \in PutBodies, file \in Files :
       /\ router = "backend"
       /\ CanArrive
       /\ upload_single(file)
       /\ Arrive(Request("PUT", id, body, file, "update", 0))
       /\ UNCHANGED <<router, db, nextId>>

(***************************************************************************)
(* DELETE /products/:id                                                    *)
(***************************************************************************)
delete ==
    \E id \in Ids :
       /\ router = "unnamed"
       /\ CanArrive
       /\ Arrive(Request("DELETE", id, NoBody, NoFile, "find", 0))
       /\ UNCHANGED <<router, db, nextId, assets, issued>>

delete_find(i) ==
    LET r == reqs[i]
        product == find(getProducts(db), r.id)
    IN  /\ r.method = "DELETE" /\ r.pc = "find"
        /\ reqs' = [reqs EXCEPT
              ![i].existing = product,
              ![i].status = IF product = <<>> THEN 404 ELSE @,
              ![i].destroyed =
                  IF product # <<>> /\ product[1].imageUrl # <<>>
                  THEN Append(@, getPublicIdFromUrl(product[1].imageUrl))
                  ELSE @,
              ![i].pc = IF product = <<>> THEN "done"
                        ELSE IF product[1].imageUrl # <<>> THEN "destroy"
                        ELSE "delete"]
        /\ UNCHANGED <<router, db, nextId, assets, issued>>

delete_destroy(i) ==
    /\ reqs[i].method = "DELETE" /\ reqs[i].pc = "destroy"
    /\ destroy(i, "delete")
    /\ UNCHANGED <<router, db, nextId, issued>>

\* await deleteProduct(id); res.status(200)
delete_remove(i) ==
    LET r == reqs[i]
    IN  /\ r.method = "DELETE" /\ r.pc = "delete"
        /\ db' = deleteProduct(db, r.id)
        /\ reqs' = [reqs EXCEPT ![i].pc = "done", ![i].status = 200,
                                ![i].persisted = Append(@, "deleteProduct")]
        /\ UNCHANGED <<router, nextId, assets, issued>>

backend_delete ==
    \E id \in Ids :
       /\ router = "backend"
       /\ CanArrive
       /\ Arrive(Request("DELETE", id, NoBody, NoFile, "delete", 0))
       /\ UNCHANGED <<router, db, nextId, assets, issued>>

(***************************************************************************)
(* The client: the React component App.  Its state is the record app; the  *)
(* server answers a fetch with ok or not ok, and GET /products with the    *)
(* products of db.  Names and descriptions carry no surrounding blanks, so *)
(* trim() leaves them as they are; prices are strings of digits, which     *)
(* parseFloat reads as Number does.                                        *)
(***************************************************************************)
initialFormData == [name |-> "", description |-> "", price |-> 0, image |-> FALSE]

Idle == [op |-> "none", pc |-> "none", isEditing |-> FALSE]

\* the values of useState at the first render; useEffect has called fetchProducts
AppInit ==
    [products |-> <<>>, isLoading |-> TRUE, openDialog |-> FALSE,
     isEditing |-> FALSE, currentProduct |-> <<>>,
     snackbar |-> "", formData |-> initialFormData]

\* fetchProducts: setProducts(data.products), or setProducts([]) and the
\* error snackbar; finally setIsLoading(false)
fetchProducts(a, ok) ==
    [a EXCEPT !.products = IF ok THEN getProducts(db) ELSE <<>>,
              !.snackbar = IF ok THEN @ ELSE "Failed to fetch products",
              !.isLoading = FALSE]

\* the fetchProducts call of useEffect resolves
mount_fetched ==
    \E ok \in BOOLEAN :
       /\ inflight.op = "mount"
       /\ app' = fetchProducts(app, ok)
       /\ inflight' = Idle
       /\ UNCHANGED <<fetched, openedWith>>

\* onClick of 'Add Product' and of 'Add Your First Product'; the open
\* dialog is modal and covers the buttons of the page
addProduct_onClick ==
    /\ ~app.openDialog
    /\ app' = [app EXCEPT !.openDialog = TRUE]
    /\ openedWith' = "add"
    /\ UNCHANGED <<inflight, fetched>>

\* the product cards are rendered only while isLoading is false
handleEdit(id) ==
    /\ ~app.openDialog /\ ~app.isLoading
    /\ id \in DOMAIN app.products
    /\ app' = [app EXCEPT
          !.isEditing = TRUE,
          !.currentProduct = << id >>,
          !.formData = [name |-> app.products[id].name,
                        description |-> app.products[id].description,
                        price |-> app.products[id].price,
                        image |-> FALSE],
          !.openDialog = TRUE]
    /\ openedWith' = "edit"
    /\ UNCHANGED <<inflight, fetched>>

handleCloseDialog ==
    /\ app.openDialog
    /\ app' = [app EXCEPT !.openDialog = FALSE, !.isEditing = FALSE,
                          !.currentProduct = <<>>, !.formData = initialFormData]
    /\ openedWith' = "none"
    /\ UNCHANGED <<inflight, fetched>>

FormNames == {"", "Cup"}
FormDescriptions == {"", "Glass cup"}
FormPrices == { <<>>, <<"1","2">> }

handleInputChange ==
    /\ app.openDialog
    /\ \/ \E v \in FormNames : app' = [app EXCEPT !.formData.name = v]
       \/ \E v \in FormDescriptions : app' = [app EXCEPT !.formData.description = v]
       \/ \E v \in FormPrices :
             app' = [app EXCEPT !.formData.price = IF v = <<>> THEN 0 ELSE Number(v)]
    /\ UNCHANGED <<inflight, fetched, openedWith>>

\* a file over 5MB or not of type image/* only shows the error snackbar
handleImageChange ==
    \E accepted \in BOOLEAN :
       /\ app.openDialog
       /\ app' = IF accepted THEN [app EXCEPT !.formData.image = TRUE]
                 ELSE [app EXCEPT !.snackbar = "Please upload an image file"]
       /\ UNCHANGED <<inflight, fetched, openedWith>>

\* the form controls: name, description and price are required, the image
\* is required={!isEditing}; the submit button is disabled while isLoading
canSubmit(a) ==
    /\ a.openDialog /\ ~a.isLoading
    /\ a.formData.name # "" /\ a.formData.description # ""
    /\ a.isEditing \/ a.formData.image

\* const method = isEditing ? 'PUT' : 'POST'
method(a) == IF a.isEditing THEN "PUT" ELSE "POST"

\* the id in the url: isEditing && currentProduct?._id, 0 for /products
urlId(a) == IF a.isEditing /\ a.currentProduct # <<>> THEN a.currentProduct[1] ELSE 0

\* handleSubmit up to its await of fetch; a draft that fails the validation
\* throws into catch and finally before any request is made
handleSubmit ==
    /\ canSubmit(app)
    /\ inflight = Idle
    /\ IF app.formData.price <= 0
       THEN /\ app' = [app EXCEPT !.snackbar = "Please fill all required fields with valid values"]
            /\ UNCHANGED <<inflight, fetched>>
       ELSE /\ Len(fetched) < MaxFetches
            /\ app' = [app EXCEPT !.isLoading = TRUE]
            /\ fetched' = Append(fetched,
                  [method |-> method(app), id |-> urlId(app), dialog |-> openedWith])
            /\ inflight' = [op |-> "submit", pc |-> "fetch", isEditing |-> app.isEditing]
    /\ UNCHANGED openedWith

\* the response of the fetch: !response.ok throws into catch and finally
submit_response ==
    \E ok \in BOOLEAN :
       /\ inflight.op = "submit" /\ inflight.pc = "fetch"
       /\ IF ok
          THEN /\ inflight' = [inflight EXCEPT !.pc = "refetch"]
               /\ app' = app
          ELSE /\ inflight' = Idle
               /\ app' = [app EXCEPT !.snackbar = "Failed to save product",
                                     !.isLoading = FALSE]
       /\ UNCHANGED <<fetched, openedWith>>

\* await fetchProducts() resolves; setFormData(initialFormData),
\* setOpenDialog(false), the success snackbar: isEditing and currentProduct
\* are not set
submit_refetched ==
    \E ok \in BOOLEAN :
       /\ inflight.op = "submit" /\ inflight.pc = "refetch"
       /\ app' = [fetchProducts(app, ok) EXCEPT
             !.formData = initialFormData,
             !.openDialog = FALSE,
             !.snackbar = IF inflight.isEditing THEN "Product updated successfully"
                          ELSE "Product added successfully"]
       /\ inflight' = Idle
       /\ openedWith' = "none"
       /\ UNCHANGED fetched

\* handleDelete after window.confirm, up to its await of fetch
handleDelete(id) ==
    /\ ~app.openDialog /\ ~app.isLoading
    /\ id \in DOMAIN app.products
    /\ inflight = Idle
    /\ Len(fetched) < MaxFetches
    /\ app' = [app EXCEPT !.isLoading = TRUE]
    /\ fetched' = Append(fetched, [method |-> "DELETE", id |-> id, dialog |-> "none"])
    /\ inflight' = [op |-> "delete", pc |-> "fetch", isEditing |-> FALSE]
    /\ UNCHANGED openedWith

delete_response ==
    \E ok \in BOOLEAN :
       /\ inflight.op = "delete" /\ inflight.pc = "fetch"
       /\ IF ok
          THEN /\ inflight' = [inflight EXCEPT !.pc = "refetch"]
               /\ app' = app
          ELSE /\ inflight' = Idle
               /\ app' = [app EXCEPT !.snackbar = "Failed to delete product",
                                     !.isLoading = FALSE]
       /\ UNCHANGED <<fetched, openedWith>>

delete_refetched ==
    \E ok \in BOOLEAN :
       /\ inflight.op = "delete" /\ inflight.pc = "refetch"
       /\ app' = [fetchProducts(app, ok) EXCEPT
             !.snackbar = "Product deleted successfully"]
       /\ inflight' = Idle
       /\ UNCHANGED <<fetched, openedWith>>

\* onClose of the Snackbar and of its Alert
snackbar_onClose ==
    /\ app.snackbar # ""
    /\ app' = [app EXCEPT !.snackbar = ""]
    /\ UNCHANGED <<inflight, fetched, openedWith>>

InitApp ==
    /\ app = AppInit
    /\ inflight = [op |-> "mount", pc |-> "fetch", isEditing |-> FALSE]
    /\ fetched = <<>>
    /\ openedWith = "none"

(***************************************************************************)
(* The specification.                                                      *)
(***************************************************************************)
Routers == {"backend", "unnamed"}

\* a product created by an earlier POST, with its image in the media store
SeedProduct ==
    [name |-> "Mug", description |-> "Ceramic mug", price |-> 9,
     imageUrl |-> SecureUrlOf(NameOf(1), Formats[1])]

\* the server starts on a collection that holds SeedProduct; the other ids
\* resolve to no product
Init ==
    /\ router \in Routers
    /\ reqs = <<>>
    /\ db = insertProduct(<<>>, 1, SeedProduct)
    /\ nextId = 2
    /\ assets = { PublicIdOf(NameOf(1)) }
    /\ issued = { IssuedAsset(NameOf(1), Formats[1]) }
    /\ InitApp

Next ==
    \/ get /\ UNCHANGED clientVars
    \/ post /\ UNCHANGED clientVars
    \/ \E i \in DOMAIN reqs : post_insert(i) /\ UNCHANGED clientVars
    \/ put /\ UNCHANGED clientVars
    \/ \E i \in DOMAIN reqs : put_find(i) /\ UNCHANGED clientVars
    \/ \E i \in DOMAIN reqs : put_destroy(i) /\ UNCHANGED clientVars
    \/ \E i \in DOMAIN reqs : put_update(i) /\ UNCHANGED clientVars
    \/ backend_put /\ UNCHANGED clientVars
    \/ delete /\ UNCHANGED clientVars
    \/ \E i \in DOMAIN reqs : delete_find(i) /\ UNCHANGED clientVars
    \/ \E i \in DOMAIN reqs : delete_destroy(i) /\ UNCHANGED clientVars
    \/ \E i \in DOMAIN reqs : delete_remove(i) /\ UNCHANGED clientVars
    \/ backend_delete /\ UNCHANGED clientVars

\* the requests of Spec come from any client: App stays as it was rendered
Spec == Init /\ [][Next]_vars

(***************************************************************************)
(* The media store alone: it issues assets under any of its names.         *)
(***************************************************************************)
storage_upload ==
    \E name \in AssetNames, format \in AllowedFormats :
       /\ store(name, format)
       /\ UNCHANGED <<router, db, nextId, reqs>>
       /\ UNCHANGED clientVars

InitStorage ==
    /\ router \in Routers
    /\ reqs = <<>>
    /\ db = <<>>
    /\ nextId = 1
    /\ assets = {}
    /\ issued = {}
    /\ InitApp

NextStorage == storage_upload

SpecStorage == InitStorage /\ [][NextStorage]_vars

(***************************************************************************)
(* The client alone, in front of a server that holds SeedProduct and       *)
(* answers every fetch with ok or not ok.                                  *)
(***************************************************************************)
NextApp ==
    \/ mount_fetched /\ UNCHANGED serverVars
    \/ addProduct_onClick /\ UNCHANGED serverVars
    \/ \E id \in Ids : handleEdit(id) /\ UNCHANGED serverVars
    \/ handleCloseDialog /\ UNCHANGED serverVars
    \/ handleInputChange /\ UNCHANGED serverVars
    \/ handleImageChange /\ UNCHANGED serverVars
    \/ handleSubmit /\ UNCHANGED serverVars
    \/ submit_response /\ UNCHANGED serverVars
    \/ submit_refetched /\ UNCHANGED serverVars
    \/ \E id \in Ids : handleDelete(id) /\ UNCHANGED serverVars
    \/ delete_response /\ UNCHANGED serverVars
    \/ delete_refetched /\ UNCHANGED serverVars
    \/ snackbar_onClose /\ UNCHANGED serverVars

SpecApp == Init /\ [][NextApp]_vars


(***************************************************************************)
(* Vocabulary of the properties.                                           *)
(***************************************************************************)
\* request i answers in this step
Completes(i) == reqs[i].pc # "done" /\ reqs'[i].pc = "done"

\* request i is received in this step
Arrives(i) == i \in DOMAIN reqs' /\ i \notin DOMAIN reqs

\* request i takes a step (it is received, or its handler moves on)
Moves(i) == Arrives(i) \/ (i \in DOMAIN reqs /\ reqs'[i] # reqs[i])

Exists(id) == id \in DOMAIN db

InvalidFields(body) ==
    body.name = "" \/ body.description = "" \/ Number(body.price) <= 0

\* the final path segment of a URL without its file extension
StripExtension(url) ==
    LET segments == split(url, "/")
        filename == segments[Len(segments)]
        lastDot == CHOOSE k \in 0..Len(filename) :
                      /\ k > 0 => filename[k] = "."
                      /\ \A j \in (k + 1)..Len(filename) : filename[j] # "."
    IN  IF lastDot = 0 THEN filename ELSE SubSeq(filename, 1, lastDot - 1)

\* the assets of the media store that no product's imageUrl points at
Orphans ==
    { a \in assets : \A id \in DOMAIN db : getPublicIdFromUrl(db[id].imageUrl) # a }

(***************************************************************************)
(* C1.  An Update of an existing product that carries a new image sets the *)
(* product's imageUrl to the URL of the uploaded asset and issues exactly  *)
(* one destroy call, for the public id derived from the previous imageUrl. *)
(* Stated of the step in which the PUT request answers.                    *)
(***************************************************************************)
C1_UpdateWithImage ==
    [][\A i \in DOMAIN reqs :
          (reqs[i].method = "PUT" /\ reqs[i].file.present
              /\ Completes(i) /\ Exists(reqs[i].id))
          => /\ reqs[i].id \in DOMAIN db'
             /\ db'[reqs[i].id].imageUrl = reqs[i].file.path
             /\ reqs'[i].destroyed = << getPublicIdFromUrl(db[reqs[i].id].imageUrl) >>
      ]_vars

(***************************************************************************)
(* C2.  A destroy call that fails during an Update with a new image or a   *)
(* Delete of an existing product is swallowed: the request still performs  *)
(* its persistence write and answers with success.                         *)
(***************************************************************************)
C2_DestroyFailureSwallowed ==
    \A i \in DOMAIN reqs :
       (reqs[i].destroyError /\ reqs[i].pc = "done")
       => /\ reqs[i].status = 200
          /\ reqs[i].persisted # <<>>

(***************************************************************************)
(* C3.  A Delete of an id that resolves to no product answers 404 and      *)
(* issues no destroy call and no deleteProduct call.                       *)
(***************************************************************************)
C3_DeleteNotFound ==
    [][\A i \in DOMAIN reqs :
          (reqs[i].method = "DELETE" /\ Completes(i)
              /\ reqs[i].existing = <<>> /\ ~Exists(reqs[i].id))
          => /\ reqs'[i].status = 404
             /\ reqs'[i].destroyed = <<>>
             /\ reqs'[i].persisted = <<>>
      ]_vars

\* C3 holds of the router of part_000
C3_DeleteNotFound_unnamed ==
    \A i \in DOMAIN reqs :
       (router = "unnamed" /\ reqs[i].method = "DELETE"
           /\ reqs[i].pc = "done" /\ reqs[i].existing = <<>>)
       => /\ reqs[i].status = 404
          /\ reqs[i].destroyed = <<>>
          /\ reqs[i].persisted = <<>>

(***************************************************************************)
(* C4.  An Update of an id that resolves to no product fails with NotFound:*)
(* no success response, no updateProduct call and no destroy call.         *)
(***************************************************************************)
C4_UpdateNotFound ==
    [][\A i \in DOMAIN reqs :
          (reqs[i].method = "PUT" /\ Completes(i)
              /\ reqs[i].existing = <<>> /\ ~Exists(reqs[i].id))
          => /\ reqs'[i].status = 404
             /\ reqs'[i].destroyed = <<>>
             /\ reqs'[i].persisted = <<>>
      ]_vars

(***************************************************************************)
(* C5.  A Create without an image answers 400 at once, calls neither       *)
(* insertProduct nor the media store, and leaves the persisted products    *)
(* and the remote assets as they were.                                     *)
(***************************************************************************)
C5_CreateWithoutImage ==
    [][\A i \in DOMAIN reqs' :
          (reqs'[i].method = "POST" /\ ~reqs'[i].file.present)
          => /\ reqs'[i].pc = "done"
             /\ reqs'[i].status = 400
             /\ reqs'[i].persisted = <<>>
             /\ Arrives(i) => (db' = db /\ nextId' = nextId
                                /\ assets' = assets /\ issued' = issued)
      ]_vars

C5_Witness ==
    \E i \in DOMAIN reqs :
       /\ reqs[i].method = "POST" /\ ~reqs[i].file.present
       /\ reqs[i].status = 400
       /\ Exists(1) /\ assets # {}

(***************************************************************************)
(* C6.  A Create with an image whose name or description is empty or whose *)
(* price is not greater than 0 answers with a validation error (400)       *)
(* before any side effect: no asset is uploaded and no product inserted.   *)
(***************************************************************************)
C6_CreateValidatesFields ==
    \A i \in DOMAIN reqs :
       (reqs[i].method = "POST" /\ reqs[i].file.present /\ InvalidFields(reqs[i].body))
       => /\ reqs[i].pc = "done"
          /\ reqs[i].status = 400
          /\ reqs[i].persisted = <<>>
          /\ getPublicIdFromUrl(reqs[i].file.path) \notin IssuedIds

(***************************************************************************)
(* C7.  An Update of an existing product that carries no image leaves the  *)
(* imageUrl of every product as it was and issues no destroy call: no step *)
(* of the request touches the media store, and the step that answers sets  *)
(* name, description and price of the product and nothing else.            *)
(***************************************************************************)
C7_UpdateWithoutImage ==
    [][\A i \in DOMAIN reqs' :
          (reqs'[i].method = "PUT" /\ ~reqs'[i].file.present /\ Moves(i))
          => /\ assets' = assets /\ issued' = issued
             /\ reqs'[i].destroyed = <<>>
             /\ DOMAIN db' = DOMAIN db
             /\ \A id \in DOMAIN db :
                   /\ db'[id].imageUrl = db[id].imageUrl
                   /\ (id # reqs'[i].id \/ reqs'[i].pc # "done") => db'[id] = db[id]
                   /\ (id = reqs'[i].id /\ reqs'[i].pc = "done")
                      => /\ reqs'[i].status = 200
                         /\ db'[id].name = reqs'[i].body.name
                         /\ db'[id].description = reqs'[i].body.description
                         /\ db'[id].price = Number(reqs'[i].body.price)
      ]_vars

C7_Witness ==
    \E i \in DOMAIN reqs :
       /\ reqs[i].method = "PUT" /\ ~reqs[i].file.present
       /\ reqs[i].pc = "done" /\ reqs[i].status = 200
       /\ Exists(reqs[i].id)
       /\ db[reqs[i].id].name = reqs[i].body.name
       /\ db[reqs[i].id].name # SeedProduct.name
       /\ db[reqs[i].id].imageUrl = SeedProduct.imageUrl

(***************************************************************************)
(* C8.  A Delete of an existing product issues exactly one destroy call,   *)
(* for the public id derived from the product's imageUrl, and removes the  *)
(* product, so that every later List() omits it.                           *)
(***************************************************************************)
C8_DeleteExisting ==
    [][/\ \A i \in DOMAIN reqs :
             (reqs[i].method = "DELETE" /\ Completes(i) /\ Exists(reqs[i].id))
             => /\ reqs'[i].destroyed = << getPublicIdFromUrl(db[reqs[i].id].imageUrl) >>
                /\ reqs[i].id \notin DOMAIN db'
       /\ \A j \in DOMAIN reqs' :
             (reqs'[j].method = "GET" /\ Arrives(j))
             => \A i \in DOMAIN reqs :
                   (reqs[i].method = "DELETE" /\ reqs[i].pc = "done"
                       /\ reqs[i].status = 200)
                   => reqs[i].id \notin DOMAIN reqs'[j].products
      ]_vars

(***************************************************************************)
(* C9.  Round trip: for every asset the media store has issued under the   *)
(* folder store-products, getPublicIdFromUrl of its URL is its public id,  *)
(* which is the final path segment of the URL without its file extension,  *)
(* prefixed with store-products/.                                          *)
(***************************************************************************)
C9_RoundTrip ==
    \A a \in issued :
       /\ getPublicIdFromUrl(a.secure_url) = a.public_id
       /\ getPublicIdFromUrl(a.secure_url) = Folder \o Slash \o StripExtension(a.secure_url)

C9_Witness ==
    \E a, b \in issued :
       /\ Len(a.public_id) > Len(b.public_id)
       /\ SubSeq(a.secure_url, Len(a.secure_url) - 2, Len(a.secure_url)) = Formats[1]
       /\ SubSeq(b.secure_url, Len(b.secure_url) - 2, Len(b.secure_url)) = Formats[2]

(***************************************************************************)
(* C10.  In the router of part_000, once every request has answered and no *)
(* destroy call has failed, Updates and Deletes of products that exist     *)
(* have left no orphan: every asset the media store still holds is the     *)
(* imageUrl of a persisted product.                                        *)
(***************************************************************************)
C10_NoOrphans ==
    ( /\ router = "unnamed"
      /\ \A i \in DOMAIN reqs :
            /\ reqs[i].pc = "done"
            /\ ~reqs[i].destroyError
            /\ reqs[i].method \in {"PUT", "DELETE"}
            /\ reqs[i].existing # <<>> )
    => Orphans = {}


(***************************************************************************)
(* C11.  Whatever the user did before (edit, submit, cancel or close,      *)
(* add), a submit from a dialog that the 'Add Product' button opened       *)
(* issues a POST to /products and never a PUT to the id of a product.      *)
(***************************************************************************)
C11_AddDialogPosts ==
    \A k \in DOMAIN fetched :
       fetched[k].dialog = "add"
       => /\ fetched[k].method = "POST"
          /\ fetched[k].id = 0

\* C11 holds until an edit has been submitted successfully: with no request
\* issued from an edit dialog, the add dialog posts
C11_AddDialogPosts_noEditBefore ==
    \A k \in DOMAIN fetched :
       (fetched[k].dialog = "add" /\ \A j \in 1..(k - 1) : fetched[j].dialog # "edit")
       => /\ fetched[k].method = "POST"
          /\ fetched[k].id = 0

=============================================================================
